---- MODULE Spec2Model ----
(***************************************************************************)
(* Model of the SOL/USDT backtest engine (backtest.py, run_backtest).      *)
(*                                                                         *)
(* Number representation.  The program computes with Python floats; the    *)
(* model computes the same expressions exactly, on fixed grids:            *)
(*   - market prices (close, high, low, stop_loss, take_profit) are        *)
(*     integers in ticks of 1/400 USDT;                                    *)
(*   - atr is an integer in cents (1/100 USDT);                            *)
(*   - sizes and sol_balance are integers in lots of 0.0001 SOL (the       *)
(*     program rounds every size to 4 decimals);                           *)
(*   - USDT amounts that pass through fee and slippage factors (balance,   *)
(*     entry_price, exit_price, profit_loss, ...) are multi-limb integers  *)
(*     ("Num") counting quanta, 3200 * BASE^3 to the tick; the quantum is  *)
(*     chosen so that every product and quotient below is exact.           *)
(*   - rsi, macd, signal, hist, volume, volume_sma are integers.           *)
(***************************************************************************)
EXTENDS Integers, Sequences, FiniteSets, TLC

(***************************************************************************)
(* Exact arithmetic on multi-limb integers.  A Num is a tuple of NLimbs    *)
(* limbs in 0..BASE-1, least significant first, in BASE's complement       *)
(* (the value is negative when the top limb is at least BASE/2).           *)
(*                                                                         *)
(* The operators on Nums bind the values of their arguments before they    *)
(* recurse over the limbs, in the form Only({F(a) : a \in {x}}), so that   *)
(* an argument is computed once however often the body uses it.            *)
(***************************************************************************)
BASE == 10^4
NLimbs == 8

\* the element of a singleton
Only(S) == CHOOSE v \in S : TRUE

RECURSIVE FromNat(_, _)
FromNat(n, k) ==
    IF k > NLimbs THEN <<>> ELSE <<n % BASE>> \o FromNat(n \div BASE, k + 1)

RECURSIVE AddC(_, _, _, _)
AddC(a, b, k, c) ==
    IF k > NLimbs THEN <<>>
    ELSE <<(a[k] + b[k] + c) % BASE>>
         \o AddC(a, b, k + 1, (a[k] + b[k] + c) \div BASE)

Add(x, y) == Only({AddC(a, b, 1, 0) : a \in {x}, b \in {y}})

RECURSIVE Compl(_, _)
Compl(a, k) ==
    IF k > NLimbs THEN <<>> ELSE <<BASE - 1 - a[k]>> \o Compl(a, k + 1)

Zero == FromNat(0, 1)
One == FromNat(1, 1)
Neg(x) == Only({Add(Compl(a, 1), One) : a \in {x}})
Sub(x, y) == Add(x, Neg(y))
FromInt(n) == IF n >= 0 THEN FromNat(n, 1) ELSE Neg(FromNat(0 - n, 1))
IsNeg(a) == a[NLimbs] >= BASE \div 2
IsZero(a) == a = Zero

\* zero counts as positive
IsPosOrZero(x) == \E a \in {x} : ~IsNeg(a)

\* x > 0
IsPos(x) == \E a \in {x} : ~IsNeg(a) /\ ~IsZero(a)

Less(x, y) == IsNeg(Sub(x, y))
Leq(x, y) == ~Less(y, x)

\* a * s for an integer s in 0..200000
RECURSIVE MulC(_, _, _, _)
MulC(a, s, k, c) ==
    IF k > NLimbs THEN <<>>
    ELSE <<(a[k] * s + c) % BASE>> \o MulC(a, s, k + 1, (a[k] * s + c) \div BASE)

MulInt(x, n) == Only({MulC(a, s, 1, 0) : a \in {x}, s \in {n}})

\* a * BASE^j
RECURSIVE ShiftUp(_, _)
ShiftUp(a, j) ==
    IF j = 0 THEN a ELSE ShiftUp(<<0>> \o SubSeq(a, 1, NLimbs - 1), j - 1)

\* quotient of a non-negative Num by an integer d in 1..200000
RECURSIVE DivC(_, _, _, _)
DivC(a, d, k, r) ==
    IF k < 1 THEN <<>>
    ELSE DivC(a, d, k - 1, (r * BASE + a[k]) % d) \o <<(r * BASE + a[k]) \div d>>

DivInt(x, d) ==
    Only({IF IsNeg(a) THEN Neg(DivC(Neg(a), d, NLimbs, 0))
          ELSE DivC(a, d, NLimbs, 0) : a \in {x}})

\* a * num / den
Frac(a, num, den) == DivInt(MulInt(a, num), den)

\* floor(n / d) for Nums n >= 0, d > 0 with a quotient below RADIX^3: the
\* quotient is found digit by digit in base RADIX, most significant first
RADIX == 2^5
Digit(n, d, q, step) ==
    CHOOSE h \in 0..(RADIX - 1) :
        /\ Leq(MulInt(d, q + h * step), n)
        /\ h < RADIX - 1 => Less(n, MulInt(d, q + (h + 1) * step))

Refine(n, d, q0, step) == Only({q + step * Digit(n, d, q, step) : q \in {q0}})

FloorQuot(n, d) ==
    Refine(n, d, Refine(n, d, Refine(n, d, 0, RADIX * RADIX), RADIX), 1)

\* Python round() of the quotient x / y to an integer: ties go to the even one
RoundHalfEven(x, y) ==
    Only({Only({Only({IF Less(twice, d) THEN q
                      ELSE IF Less(d, twice) THEN q + 1
                      ELSE IF q % 2 = 0 THEN q ELSE q + 1
                      : twice \in {MulInt(Sub(n, MulInt(d, q)), 2)}})
                : q \in {FloorQuot(n, d)}})
          : n \in {x}, d \in {y}})

(***************************************************************************)
(* Units.                                                                  *)
(***************************************************************************)
TicksPerUSDT == 4 * 100            \* one tick is a quarter of a cent
CentsPerUSDT == 10^2
LotsPerSOL == 10^4                 \* round(size, 4)
\* one tick is 3200 * BASE^3 = 32 * 10^14 quanta, so that one USDT is
\* 1.28 * 10^18 quanta
\* the USDT value of a market price given in ticks
USDT(ticks) == ShiftUp(MulInt(FromInt(ticks), 3200), 3)
\* the USDT value of a whole number of USDT
WholeUSDT(n) == USDT(n * TicksPerUSDT)

(***************************************************************************)
(* Parameters (backtest.py lines 25-41).                                   *)
(***************************************************************************)
rsi_oversold == 12
min_hist_threshold == -5
fee_percent == 75                  \* 0.075 percent, in 1/1000 percent
slippage_factor == 999             \* 0.999, in 1/1000
atr_sl_multiplier == 25            \* 0.25, in 1/100
atr_tp_multiplier == 500           \* 5.0, in 1/100
risk_per_trade == 5                \* 0.05, in 1/100
min_order_size == 5                \* 0.0005 SOL, in lots
max_hold_candles == 60
leverage == 2
initial_balance == 10              \* USDT
min_atr == 1                       \* 0.01 USDT, in cents
max_positions == 3
expected_diff == 5                 \* minutes between two candles

\* x * (1 + fee_percent / 100) and x * (1 - fee_percent / 100)
PlusFee(x) == Frac(x, 100 * 1000 + fee_percent, 100 * 1000)
MinusFee(x) == Frac(x, 100 * 1000 - fee_percent, 100 * 1000)
\* x * slippage_factor
Slipped(x) == Frac(x, slippage_factor, 1000)

(***************************************************************************)
(* Candles: one row of the frame handed to run_backtest, i.e. the OHLCV    *)
(* columns that load_data validated plus the indicator columns of          *)
(* calculate_indicators.  "undefined" holds the indicators that are NaN.   *)
(***************************************************************************)
Indicators == {"rsi", "macd", "signal", "hist", "atr", "volume_sma"}

Row(close, high, low, rsi, macd, signal, atr, volume, volume_sma, undefined) ==
    [close |-> close, high |-> high, low |-> low, rsi |-> rsi, macd |-> macd,
     signal |-> signal, hist |-> macd - signal, atr |-> atr, volume |-> volume,
     volume_sma |-> volume_sma, undefined |-> undefined]

\* load_data: prices > 0, volume >= 0, high >= low, low <= close <= high
ValidRow(c) ==
    /\ c.close > 0 /\ c.high > 0 /\ c.low > 0
    /\ c.volume >= 0
    /\ c.high >= c.low /\ c.close <= c.high /\ c.close >= c.low

\* bounds of the explored inputs
EventHorizon == 4       \* rows 1..EventHorizon are drawn from all of Rows
P == 100 * TicksPerUSDT                \* 100 USDT
Q == 20000 * TicksPerUSDT              \* 20000 USDT
A == 4 * CentsPerUSDT                  \* an atr of 4.00 USDT

\* no entry condition on rsi (rsi = rsi_oversold), atr = min_atr
Quiet == Row(P, P + 200, P - 40, 12, 0, 4, 1, 10, 9, {})
\* rsi condition only (hist = min_hist_threshold)
Partial == Row(P, P + 200, P - 40, 11, 0, 5, A, 10, 9, {})
\* all three entry conditions, narrow range
Signal == Row(P, P + 200, P - 40, 11, 0, 4, A, 10, 9, {})
\* all three entry conditions, range reaching both the stop and the take
\* price of a position entered at P with atr A
SignalWide == Row(P, P + 20 * A, P - A, 11, 0, 4, A, 10, 9, {})
\* low = stop price of such a position (volume = volume_sma)
Drop == Row(P - 200, P, P - A, 11, 0, 4, A, 9, 9, {})
\* high = take price of such a position
Spike == Row(P + 19 * A, P + 20 * A, P - 40, 50, 3, 1, A, 10, 9, {})
\* all three entry conditions at a price of 20000 USDT
Pricey == Row(Q, Q + 200, Q - 40, 11, 0, 4, A, 10, 9, {})
\* warm-up row
WarmUp == Row(P, P + 200, P - 40, 0, 0, 0, 0, 10, 0, {"rsi", "atr", "volume_sma"})
\* defined indicators, atr below min_atr
LowAtr == Row(P, P, P, 11, 0, 4, 0, 10, 9, {})

Rows == {Quiet, Partial, Signal, SignalWide, Drop, Spike, Pricey, WarmUp, LowAtr}
LateRows == {Quiet, Drop, Spike}

\* the rows that may stand at index idx of the frame
RowsAt(idx) ==
    IF idx <= EventHorizon THEN Rows
    ELSE IF idx >= max_hold_candles THEN LateRows
    ELSE {Quiet}

\* the last index of the longest frame explored
MaxIndex == max_hold_candles + EventHorizon - 1

\* timestamps of a frame without gaps, in minutes
Stamp(c, t) ==
    [timestamp |-> t, close |-> c.close, high |-> c.high, low |-> c.low,
     rsi |-> c.rsi, macd |-> c.macd, signal |-> c.signal, hist |-> c.hist,
     atr |-> c.atr, volume |-> c.volume, volume_sma |-> c.volume_sma,
     undefined |-> c.undefined]

NoRow == Stamp(Row(0, 0, 0, 0, 0, 0, 0, 0, 0, {}), 0)

(***************************************************************************)
(* run_backtest: the pieces of one iteration of the candle loop.           *)
(***************************************************************************)
\* line 142: pd.isna([rsi, macd, signal, hist, atr, volume_sma]).any()
HasNaN(c) == c.undefined # {}

\* the floor is compared with zero instead of min_atr
LowATRAgainstZero(c) == c.atr < 0

\* line 149
LowATR(c) == c.atr < min_atr

\* lines 168-172
entry_conditions(c) ==
    [rsi |-> c.rsi < rsi_oversold,
     hist |-> c.hist > min_hist_threshold,
     volume |-> c.volume > c.volume_sma]

AllConditions(c) ==
    entry_conditions(c).rsi /\ entry_conditions(c).hist /\ entry_conditions(c).volume

\* a slot counts as free while the list is not over the cap
FreeSlotInclusive(positions) == Len(positions) <= max_positions

\* line 167: a free slot
FreeSlot(positions) == Len(positions) < max_positions

\* the risk amount is divided by the price alone
TradeSizeNoStop(balance, c) ==
    LET risk_amount == Frac(balance, risk_per_trade, 100)
    IN  Only({IF Leq(risk_amount, Frac(close, min_order_size, LotsPerSOL))
              THEN min_order_size
              ELSE RoundHalfEven(MulInt(risk_amount, LotsPerSOL), close) :
              close \in {USDT(c.close)}})

\* lines 206-211: the size of a new position, in lots
TradeSize(balance, c) ==
    LET risk_amount == Frac(balance, risk_per_trade, 100)
    IN  Only({\* max(size, min_order_size), then round(size, 4)
              IF Leq(position_size_usdt, Frac(close, min_order_size, LotsPerSOL))
              THEN min_order_size
              ELSE RoundHalfEven(MulInt(position_size_usdt, LotsPerSOL), close) :
              position_size_usdt \in {Frac(risk_amount, 100, atr_sl_multiplier)},
              close \in {USDT(c.close)}})

\* line 212: size * close
PositionUSDT(size, c) == Frac(USDT(c.close), size, LotsPerSOL)

\* the required capital is compared with the leveraged balance
EntryRejectedOnMargin(balance, size, c) ==
    \E position_size_usdt \in {PositionUSDT(size, c)} :
        \/ Less(MulInt(balance, leverage), position_size_usdt)
        \/ Less(position_size_usdt, PositionUSDT(min_order_size, c))

\* line 224
EntryRejected(balance, size, c) ==
    \E position_size_usdt \in {PositionUSDT(size, c)} :
        \/ Less(balance, position_size_usdt)
        \/ Less(position_size_usdt, PositionUSDT(min_order_size, c))

\* the stop lies above the close
StopPriceAbove(c) ==
    c.close + (c.atr * atr_sl_multiplier * TicksPerUSDT) \div (100 * CentsPerUSDT)

\* lines 207, 233: close - atr * atr_sl_multiplier, in ticks
StopPrice(c) ==
    c.close - (c.atr * atr_sl_multiplier * TicksPerUSDT) \div (100 * CentsPerUSDT)

\* line 234: close + atr * atr_tp_multiplier, in ticks
TakePrice(c) ==
    c.close + (c.atr * atr_tp_multiplier * TicksPerUSDT) \div (100 * CentsPerUSDT)

\* lines 232-252
NewPosition(idx, c, size) ==
    [entry_price |-> PlusFee(Slipped(USDT(c.close))),
     size |-> size,
     stop_loss |-> StopPrice(c),
     take_profit |-> TakePrice(c),
     entry_index |-> idx,
     entry_time |-> c.timestamp,
     macd_at_entry |-> c.macd,
     signal_at_entry |-> c.signal,
     hist_at_entry |-> c.hist,
     atr_at_entry |-> c.atr,
     position_candles |-> 0]

\* the stop follows the position as it ages
AgedWithTrailingStop(pos) ==
    [pos EXCEPT !.position_candles = @ + 1, !.stop_loss = @ + 1]

\* line 275
Aged(pos) == [pos EXCEPT !.position_candles = @ + 1]

\* the take-profit branch is tested before the stop-loss branch
ExitTypeTakeFirst(pos, c) ==
    IF c.high >= pos.take_profit THEN "Take Profit"
    ELSE IF c.low <= pos.stop_loss THEN "Stop Loss"
    ELSE IF pos.position_candles >= max_hold_candles THEN "Time Exit"
    ELSE "None"

\* the hold limit is measured on the clock instead of the counter
ExitTypeByClock(pos, c) ==
    IF c.low <= pos.stop_loss THEN "Stop Loss"
    ELSE IF c.high >= pos.take_profit THEN "Take Profit"
    ELSE IF c.timestamp - pos.entry_time >= (max_hold_candles - 1) * expected_diff
         THEN "Time Exit"
    ELSE "None"

\* a position is held for one candle more
ExitTypeHoldingLonger(pos, c) ==
    IF c.low <= pos.stop_loss THEN "Stop Loss"
    ELSE IF c.high >= pos.take_profit THEN "Take Profit"
    ELSE IF pos.position_candles > max_hold_candles THEN "Time Exit"
    ELSE "None"

\* lines 282, 291, 300: the branch taken for a position whose counter has
\* been advanced
ExitType(pos, c) ==
    IF c.low <= pos.stop_loss THEN "Stop Loss"
    ELSE IF c.high >= pos.take_profit THEN "Take Profit"
    ELSE IF pos.position_candles >= max_hold_candles THEN "Time Exit"
    ELSE "None"

\* lines 283, 292, 301
ExitPrice(pos, c, exit_type) ==
    LET trigger == IF exit_type = "Stop Loss" THEN pos.stop_loss
                   ELSE IF exit_type = "Take Profit" THEN pos.take_profit
                   ELSE c.close
    IN  MinusFee(Slipped(USDT(trigger)))

\* lines 285, 294, 303
ProfitLoss(pos, exit_price) ==
    Frac(Sub(exit_price, pos.entry_price), pos.size * leverage, LotsPerSOL)

\* line 312
CandlesHeld(idx, pos) == idx - pos.entry_index

\* every closed trade is counted as a win
ClosedCountingWin(L, pos, idx, c, exit_type, exit_price, profit_loss, balance) ==
    LET sol_balance == L.sol_balance - pos.size
        trade_entry ==
            [timestamp |-> c.timestamp,
             side |-> "sell",
             entry_price |-> pos.entry_price,
             exit_price |-> exit_price,
             size |-> pos.size,
             profit_loss |-> profit_loss,
             win_loss |-> IF IsPos(profit_loss) THEN "Win" ELSE "Loss",
             usdt_balance |-> balance,
             sol_balance |-> sol_balance,
             exit_type |-> exit_type,
             sl_distance |-> Sub(pos.entry_price, USDT(pos.stop_loss)),
             tp_distance |-> Sub(USDT(pos.take_profit), pos.entry_price),
             macd_at_entry |-> pos.macd_at_entry,
             signal_at_entry |-> pos.signal_at_entry,
             hist_at_entry |-> pos.hist_at_entry,
             atr_at_entry |-> pos.atr_at_entry,
             candles_held |-> CandlesHeld(idx, pos)]
    IN  [L EXCEPT !.balance = balance,
                  !.usdt_balance = balance,
                  !.sol_balance = sol_balance,
                  !.trades = @ + 1,
                  !.wins = @ + 1,
                  !.trade_history = Append(@, trade_entry),
                  !.positions_to_close = Append(@, pos)]

\* the record shows the balance before the proceeds are credited
ClosedBeforeCredit(L, pos, idx, c, exit_type, exit_price, profit_loss, balance) ==
    LET sol_balance == L.sol_balance - pos.size
        trade_entry ==
            [timestamp |-> c.timestamp,
             side |-> "sell",
             entry_price |-> pos.entry_price,
             exit_price |-> exit_price,
             size |-> pos.size,
             profit_loss |-> profit_loss,
             win_loss |-> IF IsPos(profit_loss) THEN "Win" ELSE "Loss",
             usdt_balance |-> L.balance,
             sol_balance |-> sol_balance,
             exit_type |-> exit_type,
             sl_distance |-> Sub(pos.entry_price, USDT(pos.stop_loss)),
             tp_distance |-> Sub(USDT(pos.take_profit), pos.entry_price),
             macd_at_entry |-> pos.macd_at_entry,
             signal_at_entry |-> pos.signal_at_entry,
             hist_at_entry |-> pos.hist_at_entry,
             atr_at_entry |-> pos.atr_at_entry,
             candles_held |-> CandlesHeld(idx, pos)]
    IN  [L EXCEPT !.balance = balance,
                  !.usdt_balance = balance,
                  !.sol_balance = sol_balance,
                  !.trades = @ + 1,
                  !.wins = IF IsPos(profit_loss) THEN @ + 1 ELSE @,
                  !.trade_history = Append(@, trade_entry),
                  !.positions_to_close = Append(@, pos)]

\* lines 308-335: the ledger after closing pos on row idx
Closed(L, pos, idx, c, exit_type, exit_price, profit_loss, balance) ==
    LET sol_balance == L.sol_balance - pos.size
        trade_entry ==
            [timestamp |-> c.timestamp,
             side |-> "sell",
             entry_price |-> pos.entry_price,
             exit_price |-> exit_price,
             size |-> pos.size,
             profit_loss |-> profit_loss,
             win_loss |-> IF IsPos(profit_loss) THEN "Win" ELSE "Loss",
             usdt_balance |-> balance,
             sol_balance |-> sol_balance,
             exit_type |-> exit_type,
             sl_distance |-> Sub(pos.entry_price, USDT(pos.stop_loss)),
             tp_distance |-> Sub(USDT(pos.take_profit), pos.entry_price),
             macd_at_entry |-> pos.macd_at_entry,
             signal_at_entry |-> pos.signal_at_entry,
             hist_at_entry |-> pos.hist_at_entry,
             atr_at_entry |-> pos.atr_at_entry,
             candles_held |-> CandlesHeld(idx, pos)]
    IN  [L EXCEPT !.balance = balance,
                  !.usdt_balance = balance,
                  !.sol_balance = sol_balance,
                  !.trades = @ + 1,
                  !.wins = IF IsPos(profit_loss) THEN @ + 1 ELSE @,
                  !.trade_history = Append(@, trade_entry),
                  !.positions_to_close = Append(@, pos)]

CloseTrade(L, pos, idx, c, exit_type) ==
    Only({Only({Closed(L, pos, idx, c, exit_type, exit_price, profit_loss, balance) :
                profit_loss \in {ProfitLoss(pos, exit_price)},
                balance \in {Add(L.balance,
                                 MinusFee(Frac(exit_price, pos.size, LotsPerSOL)))}}) :
          exit_price \in {ExitPrice(pos, c, exit_type)}})

\* lines 274-341: the loop over the open positions, from the k-th on
RECURSIVE ExitLoop(_, _, _, _)
ExitLoop(L, k, idx, c) ==
    IF k > Len(L.positions) THEN L
    ELSE Only({LET M == [L EXCEPT !.positions[k] = pos]
                   exit_type == ExitType(pos, c)
               IN  IF exit_type = "None" THEN ExitLoop(M, k + 1, idx, c)
                   ELSE Only({ExitLoop(N, k + 1, idx, c) :
                              N \in {CloseTrade(M, pos, idx, c, exit_type)}}) :
               pos \in {Aged(L.positions[k])}})

\* list.remove: drop the first element equal to pos
RECURSIVE Remove(_, _)
Remove(seq, pos) ==
    IF seq = <<>> THEN <<>>
    ELSE IF Head(seq) = pos THEN Tail(seq)
    ELSE <<Head(seq)>> \o Remove(Tail(seq), pos)

\* lines 344-345
RECURSIVE RemoveClosed(_, _)
RemoveClosed(positions, positions_to_close) ==
    IF positions_to_close = <<>> THEN positions
    ELSE RemoveClosed(Remove(positions, Head(positions_to_close)),
                      Tail(positions_to_close))

RECURSIVE SumSize(_)
SumSize(positions) ==
    IF positions = <<>> THEN 0
    ELSE Head(positions).size + SumSize(Tail(positions))

\* the open positions are counted instead of their sizes summed
RecomputedSolCount(positions) == IF positions # <<>> THEN Len(positions) ELSE 0

\* lines 348-351
RecomputedSol(positions) == IF positions # <<>> THEN SumSize(positions) ELSE 0

\* lines 155-156
CountRsi(L, c) ==
    IF c.rsi < rsi_oversold
    THEN [L EXCEPT !.rsi_below_threshold_count = @ + 1]
    ELSE L

\* every candle with the rsi condition is written down, without a cap
CountPartialUncapped(L, c) ==
    IF entry_conditions(c).rsi
    THEN [L EXCEPT !.partial_condition_count = @ + 1]
    ELSE L

\* lines 181-195
CountPartial(L, c) ==
    IF entry_conditions(c).rsi /\ L.partial_condition_count < 1000
    THEN [L EXCEPT !.partial_condition_count = @ + 1]
    ELSE L

\* the required capital is taken from the balance without the fee
EnterWithoutFee(L, idx, c, size) ==
    Only({[L EXCEPT !.positions = Append(@, NewPosition(idx, c, size)),
                    !.balance = balance,
                    !.usdt_balance = balance,
                    !.sol_balance = @ + size] :
          balance \in {Sub(L.balance, PositionUSDT(size, c))}})

\* lines 231-256: the ledger after entering a position of the given size
Enter(L, idx, c, size) ==
    Only({[L EXCEPT !.positions = Append(@, NewPosition(idx, c, size)),
                    !.balance = balance,
                    !.usdt_balance = balance,
                    !.sol_balance = @ + size] :
          balance \in {Sub(L.balance, PlusFee(PositionUSDT(size, c)))}})

\* lines 155-270: the ledger after the entry evaluation of row idx, and
\* whether the iteration ended there (the continue of line 229)
EntryEvaluation(L, idx, c) ==
    LET L1 == CountRsi(L, c)
    IN  IF ~FreeSlot(L1.positions) THEN [ledger |-> L1, continued |-> FALSE]
        ELSE LET L2 == CountPartial(L1, c)
             IN  IF ~AllConditions(c) THEN [ledger |-> L2, continued |-> FALSE]
                 ELSE Only({IF EntryRejected(L2.balance, size, c)
                            THEN [ledger |-> L2, continued |-> TRUE]
                            ELSE [ledger |-> Enter(L2, idx, c, size),
                                  continued |-> FALSE] :
                            size \in {TradeSize(L2.balance, c)}})

\* the closed positions are written to the log and stay open
ExitEvaluationKeepingClosed(L, idx, c) ==
    Only({[M EXCEPT !.sol_balance = RecomputedSol(M.positions)] :
          M \in {ExitLoop([L EXCEPT !.positions_to_close = <<>>], 1, idx, c)}})

\* lines 272-351: exit evaluation, removal of the closed positions and the
\* recomputation of sol_balance
ExitEvaluation(L, idx, c) ==
    Only({LET positions == RemoveClosed(M.positions, M.positions_to_close)
          IN  [M EXCEPT !.positions = positions,
                        !.sol_balance = RecomputedSol(positions)] :
          M \in {ExitLoop([L EXCEPT !.positions_to_close = <<>>], 1, idx, c)}})

\* lines 132-351: one iteration of the loop, on row idx
Iteration(L, idx, c) ==
    IF HasNaN(c) \/ LowATR(c) THEN L
    ELSE Only({IF e.continued THEN e.ledger
               ELSE ExitEvaluation(e.ledger, idx, c) :
               e \in {EntryEvaluation(L, idx, c)}})

(***************************************************************************)
(* The profit factor, in run_backtest and in analyze_trades.  A quotient   *)
(* is kept as its numerator and denominator.                               *)
(***************************************************************************)
NotComputed == [kind |-> "not computed"]
Infinite == [kind |-> "inf"]
Quotient(num, den) == [kind |-> "quotient", num |-> num, den |-> den]

\* sum of the profit_loss of the records that are positive (sign = 1) or
\* negative (sign = -1)
RECURSIVE SumProfitLoss(_, _)
SumProfitLoss(records, sign) ==
    IF records = <<>> THEN Zero
    ELSE Only({IF (sign = 1 /\ IsPos(pl)) \/ (sign = -1 /\ IsNeg(pl))
               THEN Add(pl, rest) ELSE rest :
               pl \in {Head(records).profit_loss},
               rest \in {SumProfitLoss(Tail(records), sign)}})

Abs(x) == \* abs()
    Only({IF IsNeg(a) THEN Neg(a) ELSE a : a \in {x}})

\* the quotient is taken whenever the records hold a positive profit
ProfitFactorByProfit(records) ==
    Only({IF gross_profit # Zero
          THEN Quotient(gross_profit, Abs(SumProfitLoss(records, -1)))
          ELSE Infinite :
          gross_profit \in {SumProfitLoss(records, 1)}})

\* backtest.py, lines 361-363
ProfitFactor(records) ==
    Only({IF gross_loss # Zero
          THEN Quotient(SumProfitLoss(records, 1), gross_loss)
          ELSE Infinite :
          gross_loss \in {Abs(SumProfitLoss(records, -1))}})

\* analysetradehistory.py, lines 47-50 and 123-124
AnalysedProfitFactor(trade_df) ==
    IF trade_df = <<>> THEN NotComputed
    ELSE Only({IF loss # Zero
               THEN Quotient(SumProfitLoss(trade_df, 1), Abs(loss))
               ELSE Infinite :
               loss \in {SumProfitLoss(trade_df, -1)}})

(***************************************************************************)
(* State of one run of run_backtest.                                       *)
(***************************************************************************)
VARIABLES
    pc,                         \* "loop" while the candle loop runs, then "done"
    i,                          \* index of the last row the loop has visited
    row,                        \* that row, df.iloc[i]
    balance,
    usdt_balance,
    sol_balance,
    positions,
    trade_history,
    trades,
    wins,
    rsi_below_threshold_count,
    partial_condition_count,
    positions_to_close,
    shadow,                     \* ledger of a second run on the same rows, whose
                                \* timestamps have a gap
    gap_at,                     \* index of the first row after the gap, 0: none
    profit_factor,              \* run_backtest's profit factor, once computed
    analysis,                   \* analyze_trades' profit factor, once computed
    columns,                    \* the columns of the CSV file main reads
    frame,                      \* df in main, where main is modelled
    partial_file,               \* partial_conditions.txt
    current_fetch_start_dt,     \* fetcher: start of the period, in candles
                                \* of 5 minutes after start_time_ms
    last_timestamp,             \* fetcher: timestamp of the last candle of
                                \* the last page, on the same scale
    all_ohlcv,                  \* fetcher: whether the list holds candles
    checkpoint,                 \* fetcher: whether the checkpoint file exists
    utc_offset,                 \* fetcher: local time minus UTC, in candles
    attempts,                   \* how often each period was requested
    stalled                     \* a page did not end later than the page
                                \* before it

ledger_vars == <<balance, usdt_balance, sol_balance, positions, trade_history,
                 trades, wins, rsi_below_threshold_count,
                 partial_condition_count, positions_to_close>>
twin_vars == <<shadow, gap_at>>
report_vars == <<profit_factor, analysis>>
input_vars == <<columns, frame>>
fetch_vars == <<current_fetch_start_dt, last_timestamp, all_ohlcv, checkpoint,
                utc_offset, attempts, stalled>>
vars == <<pc, i, row, ledger_vars, twin_vars, report_vars, input_vars,
          partial_file, fetch_vars>>

\* the fetcher has not been started
FetcherNotRun ==
    /\ current_fetch_start_dt = 0
    /\ last_timestamp = 0
    /\ all_ohlcv = FALSE
    /\ checkpoint = FALSE
    /\ utc_offset = 0
    /\ attempts = <<>>
    /\ stalled = FALSE

Ledger ==
    [balance |-> balance,
     usdt_balance |-> usdt_balance,
     sol_balance |-> sol_balance,
     positions |-> positions,
     trade_history |-> trade_history,
     trades |-> trades,
     wins |-> wins,
     rsi_below_threshold_count |-> rsi_below_threshold_count,
     partial_condition_count |-> partial_condition_count,
     positions_to_close |-> positions_to_close]

\* line 46
required_columns == {"timestamp", "open", "high", "low", "close", "volume"}

\* partial_conditions.txt: emptied in lines 129-130, one line appended per
\* emission in lines 189-194
Untouched == [touched |-> FALSE, lines |-> 0]
PartialFile(lines) == [touched |-> TRUE, lines |-> lines]

\* lines 118-126
InitialLedger ==
    [balance |-> WholeUSDT(initial_balance),
     usdt_balance |-> WholeUSDT(initial_balance),
     sol_balance |-> 0,
     positions |-> <<>>,
     trade_history |-> <<>>,
     trades |-> 0,
     wins |-> 0,
     rsi_below_threshold_count |-> 0,
     partial_condition_count |-> 0,
     positions_to_close |-> <<>>]

Init ==
    /\ pc = "loop"
    /\ i = 0
    /\ row = NoRow
    /\ balance = InitialLedger.balance
    /\ usdt_balance = InitialLedger.usdt_balance
    /\ sol_balance = InitialLedger.sol_balance
    /\ positions = InitialLedger.positions
    /\ trade_history = InitialLedger.trade_history
    /\ trades = InitialLedger.trades
    /\ wins = InitialLedger.wins
    /\ rsi_below_threshold_count = InitialLedger.rsi_below_threshold_count
    /\ partial_condition_count = InitialLedger.partial_condition_count
    /\ positions_to_close = InitialLedger.positions_to_close
    /\ shadow = InitialLedger
    /\ gap_at = 0
    /\ profit_factor = NotComputed
    /\ analysis = NotComputed
    /\ columns = required_columns
    /\ frame = <<>>
    /\ partial_file = PartialFile(0)
    /\ FetcherNotRun

\* the rows the loop may find at index i + 1 (line 132: range(1, len(df)))
NextRows ==
    IF pc = "loop" /\ i < MaxIndex
    THEN {Stamp(c, expected_diff * (i + 1)) : c \in RowsAt(i + 1)}
    ELSE {}

\* the loop moves on to row c and leaves the ledger L behind
Becomes(c, after) ==
    \E L \in {after} :
    /\ pc' = pc
    /\ i' = i + 1
    /\ row' = c
    /\ balance' = L.balance
    /\ usdt_balance' = L.usdt_balance
    /\ sol_balance' = L.sol_balance
    /\ positions' = L.positions
    /\ trade_history' = L.trade_history
    /\ trades' = L.trades
    /\ wins' = L.wins
    /\ rsi_below_threshold_count' = L.rsi_below_threshold_count
    /\ partial_condition_count' = L.partial_condition_count
    /\ positions_to_close' = L.positions_to_close
    /\ partial_file' = PartialFile(L.partial_condition_count)
    /\ UNCHANGED <<report_vars, input_vars, fetch_vars>>

Eligible(c) == ~HasNaN(c) /\ ~LowATR(c)

\* an entry signal with a free slot: the size calculation is reached
EntrySignal(L, c) == FreeSlot(L.positions) /\ AllConditions(c)

\* lines 142-147: a row with an undefined indicator is skipped
SkipNaN ==
    \E c \in NextRows :
        /\ HasNaN(c)
        /\ Becomes(c, Iteration(Ledger, i + 1, c))
        /\ UNCHANGED twin_vars

\* lines 149-153: a row with a low ATR is skipped
SkipLowATR ==
    \E c \in NextRows :
        /\ ~HasNaN(c) /\ LowATR(c)
        /\ Becomes(c, Iteration(Ledger, i + 1, c))
        /\ UNCHANGED twin_vars

\* lines 224-229: an entry signal is turned down and the iteration ends
RejectEntry ==
    \E c \in NextRows :
        /\ Eligible(c)
        /\ EntryEvaluation(Ledger, i + 1, c).continued
        /\ Becomes(c, Iteration(Ledger, i + 1, c))
        /\ UNCHANGED twin_vars

\* lines 231-351: a position is opened, then all open positions are evaluated
OpenPosition ==
    \E c \in NextRows :
        /\ Eligible(c)
        /\ EntrySignal(Ledger, c)
        /\ ~EntryEvaluation(Ledger, i + 1, c).continued
        /\ Becomes(c, Iteration(Ledger, i + 1, c))
        /\ UNCHANGED twin_vars

\* lines 155-195, 264-351: no entry signal, all open positions are evaluated
HoldPositions ==
    \E c \in NextRows :
        /\ Eligible(c)
        /\ ~EntrySignal(Ledger, c)
        /\ Becomes(c, Iteration(Ledger, i + 1, c))
        /\ UNCHANGED twin_vars

\* lines 132, 353-382: the frame has no more rows, the metrics are computed
Finish ==
    /\ pc = "loop"
    /\ pc' = "done"
    /\ profit_factor' = ProfitFactor(trade_history)
    /\ UNCHANGED <<i, row, ledger_vars, twin_vars, analysis, input_vars,
                   partial_file, fetch_vars>>

Next ==
    \/ SkipNaN
    \/ SkipLowATR
    \/ RejectEntry
    \/ OpenPosition
    \/ HoldPositions
    \/ Finish

Spec == Init /\ [][Next]_vars

(***************************************************************************)
(* Two runs side by side on the same rows.  The first run reads them with  *)
(* evenly spaced timestamps, the second with one interval missing before   *)
(* row gap_at.                                                             *)
(***************************************************************************)
GapMinutes == expected_diff
GapHorizon == EventHorizon + 1
GapRows == {Quiet, Signal, Drop, Spike, WarmUp}

NextGapRows ==
    IF pc = "loop" /\ i < MaxIndex THEN RowsAt(i + 1) \cap GapRows ELSE {}

\* minutes by which row idx is late in the second run
Delay(idx, at) == IF at > 0 /\ idx >= at THEN GapMinutes ELSE 0

\* both runs take row c, the second run with a gap before row at
Twin(c, at) ==
    /\ Becomes(Stamp(c, expected_diff * (i + 1)),
               Iteration(Ledger, i + 1, Stamp(c, expected_diff * (i + 1))))
    /\ shadow' = Iteration(shadow, i + 1,
                           Stamp(c, expected_diff * (i + 1) + Delay(i + 1, at)))
    /\ gap_at' = at

\* the next row is one interval after its predecessor in both runs
OnTime == \E c \in NextGapRows : Twin(c, gap_at)

\* the next row is late in the second run
Late ==
    \E c \in NextGapRows :
        /\ gap_at = 0
        /\ i + 1 <= GapHorizon
        /\ Twin(c, i + 1)

NextGap ==
    \/ OnTime
    \/ Late
    \/ Finish

SpecGap == Init /\ [][NextGap]_vars

(***************************************************************************)
(* One entry evaluation, for a range of balances, prices and ATRs.  The    *)
(* rows carry an entry signal and reach neither the stop nor the target.   *)
(***************************************************************************)
MaxCash == 25
SizingCloses == {50, 100, 200, 20000}
SizingATRs == {1, 4, 10}
SizingRows ==
    {Row(p * TicksPerUSDT, p * TicksPerUSDT + 200, p * TicksPerUSDT - 40,
         11, 0, 4, a * CentsPerUSDT, 10, 9, {}) :
     p \in SizingCloses, a \in SizingATRs}

InitSizing ==
    /\ pc = "loop"
    /\ i = 0
    /\ row = NoRow
    /\ \E n \in 1..MaxCash :
           /\ balance = WholeUSDT(n)
           /\ usdt_balance = WholeUSDT(n)
    /\ sol_balance = InitialLedger.sol_balance
    /\ positions = InitialLedger.positions
    /\ trade_history = InitialLedger.trade_history
    /\ trades = InitialLedger.trades
    /\ wins = InitialLedger.wins
    /\ rsi_below_threshold_count = InitialLedger.rsi_below_threshold_count
    /\ partial_condition_count = InitialLedger.partial_condition_count
    /\ positions_to_close = InitialLedger.positions_to_close
    /\ shadow = InitialLedger
    /\ gap_at = 0
    /\ profit_factor = NotComputed
    /\ analysis = NotComputed
    /\ columns = required_columns
    /\ frame = <<>>
    /\ partial_file = PartialFile(0)
    /\ FetcherNotRun

\* the loop takes its first row
SizeEntry ==
    \E c \in SizingRows :
        /\ pc = "loop" /\ i = 0
        /\ Becomes(Stamp(c, expected_diff),
                   Iteration(Ledger, 1, Stamp(c, expected_diff)))
        /\ UNCHANGED twin_vars

NextSizing == SizeEntry

SpecSizing == InitSizing /\ [][NextSizing]_vars

(***************************************************************************)
(* Short runs whose trades win, lose or break even, followed by the        *)
(* analysis of their trade log.  BreakEven carries an entry signal and     *)
(* reaches its own target, which lies where the exit price after fee and   *)
(* slippage equals the entry price: 39970 * 1.00075 = 40030 * 0.99925.     *)
(***************************************************************************)
OutcomeHorizon == 4
BreakEven == Row(39970, 40030, 39968, 11, 0, 4, 3, 10, 9, {})
OutcomeRows == {Quiet, Signal, SignalWide, Spike, BreakEven}

\* the loop takes its next row
Trade ==
    \E c \in OutcomeRows :
        /\ pc = "loop" /\ i < OutcomeHorizon
        /\ Becomes(Stamp(c, expected_diff * (i + 1)),
                   Iteration(Ledger, i + 1, Stamp(c, expected_diff * (i + 1))))
        /\ UNCHANGED twin_vars

\* analysetradehistory.py, main: the trade log of the finished run is
\* analysed; without trades trade_history.csv is not written (backtest.py,
\* lines 377-380) and analyze_trades gets no data
Analyse ==
    /\ pc = "done"
    /\ pc' = "analysed"
    /\ analysis' = AnalysedProfitFactor(trade_history)
    /\ UNCHANGED <<i, row, ledger_vars, twin_vars, profit_factor, input_vars,
                   partial_file, fetch_vars>>

NextOutcome ==
    \/ Trade
    \/ Finish
    \/ Analyse

SpecOutcome == Init /\ [][NextOutcome]_vars

(***************************************************************************)
(* main: load_data, sort, dropna, calculate_indicators, run_backtest, on   *)
(* CSV files of up to MaxRows rows.  A row of the file is a record of its  *)
(* six columns, the set of those that are NaN, and its index label.  The   *)
(* indicator columns are not computed from the prices: every row may get   *)
(* any of the IndicatorProfiles.                                           *)
(***************************************************************************)
MaxRows == 3
Timestamps == {5, 10, 15}

Candle(t, open, high, low, close, volume, missing) ==
    [timestamp |-> t, open |-> open, high |-> high, low |-> low,
     close |-> close, volume |-> volume, missing |-> missing]

RawCandles ==
    UNION {{Candle(t, P, P + 200, P - 40, P, 10, {}),
            Candle(t, P, P + 200, P - 40, P, 10, {"close"}),
            Candle(t, 0, P + 200, P - 40, P, 10, {}),
            Candle(t, P, P + 200, P - 40, P, 0 - 1, {}),
            Candle(t, P, P - 40, P + 200, P - 40, 10, {}),
            Candle(t, P, P + 200, P - 40, P + 400, 10, {}),
            Candle(t, P, P + 200, P - 40, P - 400, 10, {})} : t \in Timestamps}

Indexed(c, n) ==
    [f \in DOMAIN c \cup {"index"} |-> IF f = "index" THEN n ELSE c[f]]

\* pd.read_csv: the rows get the index labels 0, 1, ...
ReadCsv(rows) == [k \in 1..Len(rows) |-> Indexed(rows[k], k - 1)]

CsvFiles ==
    UNION {[1..n -> RawCandles] : n \in 0..MaxRows}

InitMain ==
    /\ pc = "start"
    /\ i = 0
    /\ row = NoRow
    /\ balance = Zero
    /\ usdt_balance = Zero
    /\ sol_balance = 0
    /\ positions = <<>>
    /\ trade_history = <<>>
    /\ trades = 0
    /\ wins = 0
    /\ rsi_below_threshold_count = 0
    /\ partial_condition_count = 0
    /\ positions_to_close = <<>>
    /\ shadow = InitialLedger
    /\ gap_at = 0
    /\ profit_factor = NotComputed
    /\ analysis = NotComputed
    /\ columns \in {required_columns, required_columns \ {"volume"}}
    /\ \E rows \in CsvFiles : frame = ReadCsv(rows)
    /\ partial_file = Untouched
    /\ FetcherNotRun

\* a comparison with NaN is false
Present(c, col) == col \notin c.missing

\* prices may be zero
CheckedAllowingZero(cols, df) ==
    IF ~(required_columns \subseteq cols) THEN "exit"
    ELSE IF \E col \in {"open", "high", "low", "close"} :
                \E k \in 1..Len(df) : Present(df[k], col) /\ df[k][col] < 0
         THEN "exit"
    ELSE IF \E k \in 1..Len(df) : Present(df[k], "volume") /\ df[k].volume < 0
         THEN "exit"
    ELSE IF \/ \E k \in 1..Len(df) :
                   /\ Present(df[k], "high") /\ Present(df[k], "low")
                   /\ df[k].high < df[k].low
            \/ \E k \in 1..Len(df) :
                   /\ Present(df[k], "high") /\ Present(df[k], "close")
                   /\ df[k].close > df[k].high
            \/ \E k \in 1..Len(df) :
                   /\ Present(df[k], "low") /\ Present(df[k], "close")
                   /\ df[k].close < df[k].low
         THEN "exit"
    ELSE "ok"

\* load_data, lines 46-64: "exit" stands for sys.exit(1)
Checked(cols, df) ==
    IF ~(required_columns \subseteq cols) THEN "exit"
    ELSE IF \E col \in {"open", "high", "low", "close"} :
                \E k \in 1..Len(df) : Present(df[k], col) /\ df[k][col] <= 0
         THEN "exit"
    ELSE IF \E k \in 1..Len(df) : Present(df[k], "volume") /\ df[k].volume < 0
         THEN "exit"
    ELSE IF \/ \E k \in 1..Len(df) :
                   /\ Present(df[k], "high") /\ Present(df[k], "low")
                   /\ df[k].high < df[k].low
            \/ \E k \in 1..Len(df) :
                   /\ Present(df[k], "high") /\ Present(df[k], "close")
                   /\ df[k].close > df[k].high
            \/ \E k \in 1..Len(df) :
                   /\ Present(df[k], "low") /\ Present(df[k], "close")
                   /\ df[k].close < df[k].low
         THEN "exit"
    ELSE "ok"

\* what main's steps leave alone besides pc and frame
main_frame == <<i, row, ledger_vars, twin_vars, report_vars, columns, partial_file,
                fetch_vars>>

\* main, line 386: load_data
LoadData ==
    /\ pc = "start"
    /\ pc' = IF Checked(columns, frame) = "ok" THEN "loaded" ELSE "aborted"
    /\ UNCHANGED <<frame, main_frame>>

\* the orders in which sort_values('timestamp') may leave the rows: the
\* default sort is not stable, rows with equal timestamps come in any order
SortedOrders(df) ==
    {[k \in 1..Len(df) |-> df[p[k]]] :
        p \in {q \in [1..Len(df) -> 1..Len(df)] :
                  /\ \A a, b \in 1..Len(df) : a # b => q[a] # q[b]
                  /\ \A a, b \in 1..Len(df) :
                         a < b => df[q[a]].timestamp <= df[q[b]].timestamp}}

\* main, lines 389-394: gaps and duplicates are counted for the log only
SortValues ==
    /\ pc = "loaded"
    /\ frame' \in SortedOrders(frame)
    /\ pc' = "sorted"
    /\ UNCHANGED main_frame

RECURSIVE Keep(_, _)
\* the rows of df whose index is in the set kept, in their order
Keep(df, kept) ==
    IF df = <<>> THEN <<>>
    ELSE IF Len(df) \in kept
         THEN Append(Keep(SubSeq(df, 1, Len(df) - 1), kept), df[Len(df)])
         ELSE Keep(SubSeq(df, 1, Len(df) - 1), kept)

\* main, line 397
DropNa ==
    /\ pc = "sorted"
    /\ frame' = Keep(frame, {k \in 1..Len(frame) : frame[k].missing = {}})
    /\ pc' = "clean"
    /\ UNCHANGED main_frame

\* rsi, macd, signal, atr, volume_sma and the columns that are NaN
Profile(rsi, macd, signal, atr, volume_sma, undefined) ==
    [rsi |-> rsi, macd |-> macd, signal |-> signal, atr |-> atr,
     volume_sma |-> volume_sma, undefined |-> undefined]

IndicatorProfiles ==
    {Profile(11, 0, 4, A, 9, {}),
     Profile(0, 0, 4, A, 9, {}),
     Profile(0, 0, 0, 0, 0, {"rsi", "atr", "volume_sma"})}

\* a row of the file with its indicator columns
WithIndicators(c, ind) ==
    Indexed(Stamp(Row(c.close, c.high, c.low, ind.rsi, ind.macd, ind.signal,
                      ind.atr, c.volume, ind.volume_sma, ind.undefined),
                  c.timestamp),
            c.index)

\* calculate_indicators, lines 71-105
ComputeIndicators ==
    /\ pc = "clean"
    /\ \E ind \in [1..Len(frame) -> IndicatorProfiles] :
           frame' = [k \in 1..Len(frame) |-> WithIndicators(frame[k], ind[k])]
    /\ pc' = "indicators"
    /\ UNCHANGED main_frame

\* lines 108-111: df[df['rsi'] >= 1.0], when some row has rsi < 1.0
RsiFilter(df) ==
    IF \E k \in 1..Len(df) : "rsi" \notin df[k].undefined /\ df[k].rsi < 1
    THEN Keep(df, {k \in 1..Len(df) :
                      "rsi" \notin df[k].undefined /\ df[k].rsi >= 1})
    ELSE df

\* line 114: reset_index(drop=True)
ResetIndex(df) == [k \in 1..Len(df) |-> Indexed(df[k], k - 1)]

\* calculate_indicators, lines 107-115
FilterRsi ==
    /\ pc = "indicators"
    /\ frame' = ResetIndex(RsiFilter(frame))
    /\ pc' = "ready"
    /\ UNCHANGED main_frame

\* run_backtest, lines 118-130
StartBacktest ==
    /\ pc = "ready"
    /\ pc' = "loop"
    /\ balance' = InitialLedger.balance
    /\ usdt_balance' = InitialLedger.usdt_balance
    /\ partial_file' = PartialFile(0)
    /\ UNCHANGED <<i, row, sol_balance, positions, trade_history, trades, wins,
                   rsi_below_threshold_count, partial_condition_count,
                   positions_to_close, twin_vars, report_vars, input_vars,
                   fetch_vars>>

\* line 132: the loop takes row i + 1 of the frame
Step ==
    /\ pc = "loop"
    /\ i + 1 < Len(frame)
    /\ Becomes(frame[i + 2], Iteration(Ledger, i + 1, frame[i + 2]))
    /\ UNCHANGED twin_vars

\* line 132: the loop has taken the last row of the frame
EndOfFrame ==
    /\ i + 1 >= Len(frame)
    /\ Finish

NextMain ==
    \/ LoadData
    \/ SortValues
    \/ DropNa
    \/ ComputeIndicators
    \/ FilterRsi
    \/ StartBacktest
    \/ Step
    \/ EndOfFrame

SpecMain == InitMain /\ [][NextMain]_vars

(***************************************************************************)
(* The end of a long run: rows 1 .. 1000 - CapMargin of the frame all met  *)
(* the rsi condition only, so that each of them was counted and written    *)
(* to partial_conditions.txt and no position was opened.  The rows that    *)
(* follow take partial_condition_count up to the limit of line 183.        *)
(***************************************************************************)
CapMargin == 3
CapRows == {Quiet, Partial, Signal, Spike, WarmUp, LowAtr}

InitCap ==
    /\ pc = "loop"
    /\ i = 1000 - CapMargin
    /\ row = Stamp(Partial, expected_diff * i)
    /\ balance = InitialLedger.balance
    /\ usdt_balance = InitialLedger.usdt_balance
    /\ sol_balance = InitialLedger.sol_balance
    /\ positions = InitialLedger.positions
    /\ trade_history = InitialLedger.trade_history
    /\ trades = InitialLedger.trades
    /\ wins = InitialLedger.wins
    /\ rsi_below_threshold_count = i
    /\ partial_condition_count = i
    /\ positions_to_close = InitialLedger.positions_to_close
    /\ shadow = InitialLedger
    /\ gap_at = 0
    /\ profit_factor = NotComputed
    /\ analysis = NotComputed
    /\ columns = required_columns
    /\ frame = <<>>
    /\ partial_file = PartialFile(partial_condition_count)
    /\ FetcherNotRun

\* line 132: the loop takes the next row of the frame
LateStep ==
    \E c \in CapRows :
        /\ pc = "loop" /\ i < 1000 + CapMargin
        /\ Becomes(Stamp(c, expected_diff * (i + 1)),
                   Iteration(Ledger, i + 1, Stamp(c, expected_diff * (i + 1))))
        /\ UNCHANGED twin_vars

NextCap == LateStep \/ Finish

SpecCap == InitCap /\ [][NextCap]_vars

(***************************************************************************)
(* Short runs with entries at the smallest ATR that passes line 149: the   *)
(* stop of such a position lies 0.0025 USDT, one tick, below its close.    *)
(***************************************************************************)
StopHorizon == 4
\* all three entry conditions, atr = min_atr, the low stays above the stop
Thin == Row(P, P + 200, P, 11, 0, 4, min_atr, 10, 9, {})
\* all three entry conditions, atr = min_atr, the low is the stop price
ThinStop == Row(P, P + 200, P - 1, 11, 0, 4, min_atr, 10, 9, {})
StopRows == {Quiet, Signal, Drop, Spike, Thin, ThinStop}

\* line 132: the loop takes the next row of the frame
StopStep ==
    \E c \in StopRows :
        /\ pc = "loop" /\ i < StopHorizon
        /\ Becomes(Stamp(c, expected_diff * (i + 1)),
                   Iteration(Ledger, i + 1, Stamp(c, expected_diff * (i + 1))))
        /\ UNCHANGED twin_vars

NextStop == StopStep \/ Finish

SpecStop == Init /\ [][NextStop]_vars

(***************************************************************************)
(* The fetcher (fetch_data-grok-v0.1.py).  Times are counted in candles of *)
(* 5 minutes (300_000 ms) from start_time_ms, which is taken to lie on a   *)
(* candle boundary.  The exchange is free in what it answers: a full page, *)
(* a short page, no candle at all, a page that ends where the page before  *)
(* ended or earlier, or one of the errors the loop handles.  Of all_ohlcv  *)
(* and of the checkpoint file only what the control flow reads is kept:    *)
(* whether they hold anything.                                             *)
(***************************************************************************)
months == 11
chunk_duration == 30 * 24 * 12     \* timedelta(days=30), in candles
limit == 1000                      \* fetch_ohlcv(..., limit=1000)
end_dt == months * chunk_duration  \* end_time_ms, lines 29-30
PageKinds == 2                     \* a page is full, half full, a quarter ...
PageSizes == {limit \div 2^k : k \in 0..(PageKinds - 1)}
ShortPage == limit \div 2^(PageKinds - 1)   \* the shortest page
UtcOffsets == {-12, 0, 12}         \* the machine runs at UTC-1, UTC or UTC+1

Min(a, b) == IF a <= b THEN a ELSE b

\* datetime.timestamp() of a naive datetime made by utcfromtimestamp: the
\* datetime is read as local time (lines 41-42)
Timestamp(dt) == dt - utc_offset

\* line 40
fetch_end_dt == Min(current_fetch_start_dt + chunk_duration, end_dt)
fetch_start_ms == Timestamp(current_fetch_start_dt)
fetch_end_ms == Timestamp(fetch_end_dt)

\* the period of the current iteration, 1 .. months
Period == current_fetch_start_dt \div chunk_duration + 1

\* timestamps a non-empty page requested with the given since may end at
PageEnds(since) == {since + n - 1 : n \in PageSizes}

\* timestamps a non-empty page may end at that are not later than the end
\* of the page before it: the same candle again, or a short page back (but
\* no candle from before the period)
StalePageEnds ==
    {last_timestamp} \cup
    (IF last_timestamp - ShortPage >= fetch_start_ms
     THEN {last_timestamp - ShortPage} ELSE {})

\* the period start stays where it is
Retried(dt) == dt

\* lines 84, 88, 92: current_fetch_start_dt += chunk_duration
Advanced(dt) == dt + chunk_duration

InitFetch ==
    /\ pc = "period"
    /\ i = 0
    /\ row = NoRow
    /\ balance = InitialLedger.balance
    /\ usdt_balance = InitialLedger.usdt_balance
    /\ sol_balance = InitialLedger.sol_balance
    /\ positions = InitialLedger.positions
    /\ trade_history = InitialLedger.trade_history
    /\ trades = InitialLedger.trades
    /\ wins = InitialLedger.wins
    /\ rsi_below_threshold_count = InitialLedger.rsi_below_threshold_count
    /\ partial_condition_count = InitialLedger.partial_condition_count
    /\ positions_to_close = InitialLedger.positions_to_close
    /\ shadow = InitialLedger
    /\ gap_at = 0
    /\ profit_factor = NotComputed
    /\ analysis = NotComputed
    /\ columns = required_columns
    /\ frame = <<>>
    /\ partial_file = Untouched
    /\ current_fetch_start_dt = 0
    /\ last_timestamp = 0
    /\ all_ohlcv = FALSE
    /\ checkpoint = FALSE
    /\ utc_offset \in UtcOffsets
    /\ attempts = [p \in 1..months |-> 0]
    /\ stalled = FALSE

backtest_vars == <<i, row, ledger_vars, twin_vars, report_vars, input_vars,
                   partial_file>>

\* line 39: the outer loop is about to request the first page of a period
AtPeriod == pc = "period" /\ current_fetch_start_dt < end_dt

\* line 54: the inner loop is about to request one more page
AtPage == pc = "pages" /\ last_timestamp < fetch_end_ms - 1

\* lines 91-92, and 84-85, 88-89: the iteration ends
EndIteration ==
    /\ pc' = "period"
    /\ current_fetch_start_dt' = Advanced(current_fetch_start_dt)

\* line 47 was executed for the current period
Requested == attempts' = [attempts EXCEPT ![Period] = @ + 1]

\* lines 47-53: the first page of the period holds candles
FirstPage ==
    \E t \in PageEnds(fetch_start_ms) :
        /\ AtPeriod
        /\ Requested
        /\ all_ohlcv' = TRUE
        /\ last_timestamp' = t
        /\ pc' = "pages"
        /\ UNCHANGED <<current_fetch_start_dt, checkpoint, utc_offset, stalled,
                       backtest_vars>>

\* lines 47-48, 73-74, 91-92: no candle for the period
NoData ==
    /\ AtPeriod
    /\ Requested
    /\ EndIteration
    /\ UNCHANGED <<last_timestamp, all_ohlcv, checkpoint, utc_offset, stalled,
                   backtest_vars>>

\* lines 54-61: one more page with candles
MorePages ==
    \E t \in PageEnds(last_timestamp + 1) \cup StalePageEnds :
        /\ AtPage
        /\ last_timestamp' = t
        /\ stalled' = (stalled \/ t <= last_timestamp)
        /\ UNCHANGED <<pc, current_fetch_start_dt, all_ohlcv, checkpoint,
                       utc_offset, attempts, backtest_vars>>

\* lines 62-71, 91-92: an empty page ends the period
NoMoreData ==
    /\ AtPage
    /\ checkpoint' = TRUE
    /\ EndIteration
    /\ UNCHANGED <<last_timestamp, all_ohlcv, utc_offset, attempts, stalled,
                   backtest_vars>>

\* lines 54, 66-71, 91-92: the last page reached the end of the period
PeriodComplete ==
    /\ pc = "pages" /\ ~(last_timestamp < fetch_end_ms - 1)
    /\ checkpoint' = TRUE
    /\ EndIteration
    /\ UNCHANGED <<last_timestamp, all_ohlcv, utc_offset, attempts, stalled,
                   backtest_vars>>

\* a request of line 47 or of line 57 raises
Raised ==
    /\ AtPeriod \/ AtPage
    /\ IF pc = "period" THEN Requested ELSE UNCHANGED attempts
    /\ EndIteration
    /\ UNCHANGED <<last_timestamp, all_ohlcv, checkpoint, utc_offset, stalled,
                   backtest_vars>>

\* lines 76-78, 91-92
RateLimitExceeded == Raised
\* lines 79-81, 91-92
NetworkError == Raised
\* lines 82-85
ExchangeError == Raised
\* lines 86-89
UnexpectedError == Raised

\* lines 39, 94-112: the loop is left and the output file is written, if
\* there is a candle to write
FetchDone ==
    /\ pc = "period" /\ ~(current_fetch_start_dt < end_dt)
    /\ pc' = IF all_ohlcv THEN "saved" ELSE "no data"
    /\ UNCHANGED <<fetch_vars, backtest_vars>>

NextFetch ==
    \/ FirstPage
    \/ NoData
    \/ MorePages
    \/ NoMoreData
    \/ PeriodComplete
    \/ RateLimitExceeded
    \/ NetworkError
    \/ ExchangeError
    \/ UnexpectedError
    \/ FetchDone

\* the interpreter keeps running: sleep returns, and a request returns or
\* raises
SpecFetch == InitFetch /\ [][NextFetch]_vars /\ WF_vars(NextFetch)

(***************************************************************************)
(* Properties of run_backtest.                                             *)
(***************************************************************************)

\* C1: the number of open positions never exceeds max_positions, neither
\* after a step of the candle loop nor inside it, right after the entry
\* evaluation has appended a position.
C1_PositionsBounded ==
    [][/\ Len(positions') <= max_positions
       /\ (pc' = "loop" /\ Eligible(row')) =>
              Len(EntryEvaluation(Ledger, i', row').ledger.positions)
                  <= max_positions]_vars

\* an entry signal arrived while max_positions positions were open, and no
\* further position was opened
C1_Witness ==
    /\ pc = "loop" /\ i > 0
    /\ Eligible(row) /\ AllConditions(row)
    /\ Len(positions) = max_positions
    /\ \A k \in 1..Len(positions) : positions[k].entry_index < i
    /\ \A k \in 1..Len(trade_history) : trade_history[k].timestamp < row.timestamp

\* C2: every position closed on a step gets one exit_type, Stop Loss when the
\* low reaches the stop whatever else holds, else Take Profit when the high
\* reaches the target even if the hold limit is reached, and Time Exit only
\* when neither holds and the counter has reached max_hold_candles.
C2_ExitPriority ==
    [][trades' > trades =>
        /\ Len(trade_history') = Len(trade_history) + Len(positions_to_close')
        /\ \A k \in 1..Len(positions_to_close') :
             LET pos == positions_to_close'[k]
                 exit_type == trade_history'[Len(trade_history) + k].exit_type
             IN  /\ exit_type \in {"Stop Loss", "Take Profit", "Time Exit"}
                 /\ row'.low <= pos.stop_loss => exit_type = "Stop Loss"
                 /\ (row'.low > pos.stop_loss /\ row'.high >= pos.take_profit)
                        => exit_type = "Take Profit"
                 /\ exit_type = "Time Exit"
                        => /\ row'.low > pos.stop_loss
                           /\ row'.high < pos.take_profit
                           /\ pos.position_candles >= max_hold_candles]_vars

\* a position was closed by Stop Loss on a row whose high also reached its
\* target
C2_Witness ==
    /\ pc = "loop" /\ trade_history # <<>> /\ positions_to_close # <<>>
    /\ trade_history[Len(trade_history)].timestamp = row.timestamp
    /\ trade_history[Len(trade_history)].exit_type = "Stop Loss"
    /\ row.high >= positions_to_close[Len(positions_to_close)].take_profit
    /\ row.low <= positions_to_close[Len(positions_to_close)].stop_loss

\* C3: after every step sol_balance is the sum of the sizes of the open
\* positions.
C3_SolBalanceIsSum == sol_balance = SumSize(positions)

\* a step closed a position and left others open
C3_Witness ==
    /\ pc = "loop" /\ trade_history # <<>>
    /\ trade_history[Len(trade_history)].timestamp = row.timestamp
    /\ positions # <<>>
    /\ sol_balance > 0

\* C4: on every eligible row every open position is exit-evaluated: its
\* counter advances by one, and it stays open or is closed on that row.
C4_ExitEvaluationRuns ==
    [][(pc' = "loop" /\ Eligible(row')) =>
          \A k \in 1..Len(positions) :
              \/ \E n \in 1..Len(positions') : positions'[n] = Aged(positions[k])
              \/ \E n \in 1..Len(positions_to_close') :
                     positions_to_close'[n] = Aged(positions[k])]_vars

\* C5: a row with an undefined indicator or with an ATR below min_atr leaves
\* the whole ledger as it was.
C5_SkippedRowFrame ==
    [][(pc' = "loop" /\ (row'.undefined # {} \/ row'.atr < min_atr)) =>
          UNCHANGED ledger_vars]_vars

\* a row with a low ATR was skipped while a position was open
C5_Witness ==
    /\ pc = "loop" /\ i > 0
    /\ row.undefined = {} /\ row.atr < min_atr
    /\ row.rsi < rsi_oversold
    /\ positions # <<>>

\* C6: an entry signal with a free slot whose required capital exceeds the
\* balance, or is below the minimum notional, creates no position and leaves
\* balance, usdt_balance, sol_balance and positions unchanged.
C6_RejectedEntryFrame ==
    [][(/\ pc' = "loop" /\ Eligible(row') /\ EntrySignal(Ledger, row')
        /\ \E position_size_usdt \in
               {PositionUSDT(TradeSize(balance, row'), row')} :
               \/ Less(balance, position_size_usdt)
               \/ Less(position_size_usdt, PositionUSDT(min_order_size, row')))
       => /\ positions' = positions
          /\ balance' = balance
          /\ usdt_balance' = usdt_balance
          /\ sol_balance' = sol_balance]_vars

\* an entry signal arrived with a free slot and a position open, and neither
\* a position was opened nor one closed on that row
C6_Witness ==
    /\ pc = "loop" /\ i > 0
    /\ Eligible(row) /\ AllConditions(row) /\ FreeSlot(positions)
    /\ positions # <<>>
    /\ \A k \in 1..Len(positions) : positions[k].entry_index < i
    /\ \A k \in 1..Len(trade_history) : trade_history[k].timestamp < row.timestamp

\* C7: every trade closed by Time Exit records candles_held >=
\* max_hold_candles.
C7_TimeExitHeldLongEnough ==
    \A k \in 1..Len(trade_history) :
        trade_history[k].exit_type = "Time Exit"
            => trade_history[k].candles_held >= max_hold_candles

\* C8: the candles_held of every trade record is the counter of the position
\* it closes.
C8_RecordedHoldIsCounter ==
    [][trades' > trades =>
          \A k \in 1..Len(positions_to_close') :
              trade_history'[Len(trade_history) + k].candles_held
                  = positions_to_close'[k].position_candles]_vars

\* C10: a gap in the timestamps changes nothing in the trade log but the
\* recorded timestamps, and nothing in the balance.
C10_GapIndependent ==
    /\ Len(shadow.trade_history) = Len(trade_history)
    /\ \A k \in 1..Len(trade_history) :
           \A f \in DOMAIN trade_history[k] \ {"timestamp"} :
               shadow.trade_history[k][f] = trade_history[k][f]
    /\ shadow.balance = balance
    /\ shadow.usdt_balance = usdt_balance
    /\ shadow.sol_balance = sol_balance

\* a position opened before the gap was closed by Time Exit after it
C10_Witness ==
    /\ gap_at > 0 /\ trade_history # <<>>
    /\ \E k \in 1..Len(trade_history) :
           /\ trade_history[k].exit_type = "Time Exit"
           /\ shadow.trade_history[k].exit_type = "Time Exit"
           /\ shadow.trade_history[k].timestamp
                  = trade_history[k].timestamp + GapMinutes
           /\ trade_history[k].timestamp
                  - trade_history[k].candles_held * expected_diff
                  < gap_at * expected_diff

\* C11: with balance 10, close 100 and ATR 1.0 an entry signal is accepted
\* with size 0.0200 and required capital 2.00, stop 99.75 and target 105.0;
\* in general the size is max(balance * 0.05 / 0.25 / close, 0.0005) rounded
\* to 4 decimals, the stop is close - 0.25 * ATR and the target is
\* close + 5 * ATR.
C11_EntrySizing ==
    [][(i' = 1 /\ positions' # <<>>) =>
        LET pos == positions'[1]
            close == USDT(row'.close)
            raw_usdt == DivInt(balance, 5)
            \* twice the distance, in lots times the price, of the size from
            \* the unrounded size
            twice == Sub(MulInt(close, 2 * pos.size), MulInt(raw_usdt, 2 * 10000))
        IN  /\ IF Leq(MulInt(raw_usdt, 10000), MulInt(close, 5))
               THEN pos.size = 5
               ELSE /\ Leq(twice, close) /\ Leq(Neg(twice), close)
                    /\ (twice = close \/ Neg(twice) = close) => pos.size % 2 = 0
            \* a cent of ATR is 4 ticks of price
            /\ 100 * (row'.close - pos.stop_loss) = 25 * 4 * row'.atr
            /\ 100 * (pos.take_profit - row'.close) = 500 * 4 * row'.atr
            /\ (balance = WholeUSDT(10) /\ row'.close = 100 * 400 /\ row'.atr = 100)
                   => /\ pos.size = 200
                      /\ pos.stop_loss = 39900
                      /\ pos.take_profit = 42000
                      /\ Sub(balance, balance')
                             = Frac(WholeUSDT(2), 100075, 100000)]_vars

\* the entry of the example: balance 10, close 100, ATR 1.0
C11_Witness ==
    /\ i = 1 /\ Len(positions) = 1
    /\ row.close = 100 * TicksPerUSDT /\ row.atr = CentsPerUSDT
    /\ positions[1].size = 200
    /\ Sub(WholeUSDT(10), balance) = Frac(WholeUSDT(2), 100075, 100000)

\* C12: a trade record says Win exactly when its profit_loss is above zero,
\* and wins counts exactly these records; a profit_loss of zero is a Loss.
C12_WinIffPositive ==
    /\ \A k \in 1..Len(trade_history) :
           /\ trade_history[k].win_loss \in {"Win", "Loss"}
           /\ trade_history[k].win_loss = "Win"
                  <=> Less(Zero, trade_history[k].profit_loss)
    /\ wins = Cardinality({k \in 1..Len(trade_history) :
                               Less(Zero, trade_history[k].profit_loss)})

\* a trade with a profit_loss of zero is in the log, and nothing else
C12_Witness ==
    /\ Len(trade_history) = 1
    /\ trade_history[1].profit_loss = Zero
    /\ trade_history[1].win_loss = "Loss"
    /\ wins = 0 /\ trades = 1

\* C13: when the trade log holds no losing trade, the empty log included,
\* the profit factor of run_backtest and of analyze_trades is the infinite
\* sentinel; otherwise it is the gross profit over the absolute gross loss.
C13_ProfitFactor ==
    pc = "analysed" =>
        LET losing == \E k \in 1..Len(trade_history) :
                          Less(trade_history[k].profit_loss, Zero)
            quotient == Quotient(SumProfitLoss(trade_history, 1),
                                 Neg(SumProfitLoss(trade_history, -1)))
        IN  /\ ~losing => (profit_factor = Infinite /\ analysis = Infinite)
            /\ losing => (profit_factor = quotient /\ analysis = quotient)

\* C13, amended: as C13 for run_backtest, and for analyze_trades on a log
\* with at least one trade; on an empty log analyze_trades returns before it
\* computes a profit factor.
C13_ProfitFactorOfTrades ==
    LET losing == \E k \in 1..Len(trade_history) :
                      Less(trade_history[k].profit_loss, Zero)
        quotient == Quotient(SumProfitLoss(trade_history, 1),
                             Neg(SumProfitLoss(trade_history, -1)))
        expected == IF losing THEN quotient ELSE Infinite
    IN  /\ pc = "loop" => (profit_factor = NotComputed /\ analysis = NotComputed)
        /\ pc \in {"done", "analysed"} => profit_factor = expected
        /\ pc = "done" => analysis = NotComputed
        /\ pc = "analysed" =>
               analysis = IF trade_history = <<>> THEN NotComputed ELSE expected

\* a log whose trades all have a profit_loss of zero was analysed
C13_Witness ==
    /\ pc = "analysed"
    /\ Len(trade_history) = 2
    /\ \A k \in 1..Len(trade_history) : trade_history[k].profit_loss = Zero
    /\ profit_factor = Infinite
    /\ analysis = Infinite

\* C14: a file that misses a required column, or has a price <= 0, a
\* volume < 0, high < low, close > high or close < low, ends the run in
\* load_data: no indicator is computed, the ledger is neither created nor
\* changed, no trade is recorded and partial_conditions.txt is not touched.
C14_InvalidInputAborts ==
    [][/\ pc # "aborted"          \* the run takes no step after it has ended
       /\ (/\ pc = "start"
           /\ \/ \E col \in {"timestamp", "open", "high", "low", "close",
                               "volume"} : col \notin columns
              \/ \E k \in 1..Len(frame) :
                     \/ frame[k].open <= 0 \/ frame[k].high <= 0
                     \/ frame[k].low <= 0 \/ frame[k].close <= 0
                     \/ frame[k].volume < 0
                     \/ frame[k].high < frame[k].low
                     \/ frame[k].close > frame[k].high
                     \/ frame[k].close < frame[k].low)
          => /\ pc' = "aborted"
             /\ frame' = frame
             /\ \A k \in 1..Len(frame') : "rsi" \notin DOMAIN frame'[k]
             /\ balance' = Zero /\ usdt_balance' = Zero /\ sol_balance' = 0
             /\ positions' = <<>> /\ trade_history' = <<>>
             /\ trades' = 0 /\ wins' = 0
             /\ rsi_below_threshold_count' = 0 /\ partial_condition_count' = 0
             /\ partial_file' = Untouched]_vars

\* a file whose only fault is a close below the low was turned down
C14_Witness ==
    /\ pc = "aborted"
    /\ columns = required_columns
    /\ Len(frame) >= 2
    /\ \E k \in 1..Len(frame) : frame[k].close < frame[k].low
    /\ \A k \in 1..Len(frame) :
           /\ frame[k].open > 0 /\ frame[k].low > 0 /\ frame[k].volume >= 0
           /\ frame[k].high >= frame[k].close
    /\ partial_file = Untouched

\* C15: the RSI filter removes exactly the rows whose RSI is defined and
\* below 1.0; the rows with an undefined RSI and those with an RSI of at
\* least 1.0 stay, in their order, and are indexed 0, 1, ...
C15_RsiFilterDropsOnlyLow ==
    [][pc = "indicators" =>
        LET kept == Keep(frame, {k \in 1..Len(frame) :
                                    \/ "rsi" \in frame[k].undefined
                                    \/ frame[k].rsi >= 1})
        IN  frame' = [k \in 1..Len(kept) |-> [kept[k] EXCEPT !.index = k - 1]]]_vars

\* C16: partial_condition_count never exceeds 1000 and never exceeds
\* rsi_below_threshold_count; a record is written, one at a time, only for
\* a row with all indicators defined and an ATR of at least min_atr that
\* finds a free position slot and has an RSI below rsi_oversold.
C16_PartialEmissions ==
    /\ [](partial_condition_count <= 1000)
    /\ [](partial_condition_count <= rsi_below_threshold_count)
    /\ [][partial_condition_count' # partial_condition_count
            => /\ partial_condition_count' = partial_condition_count + 1
               /\ partial_file'.lines = partial_file.lines + 1
               /\ row'.undefined = {} /\ row'.atr >= min_atr
               /\ Len(positions) < max_positions
               /\ row'.rsi < rsi_oversold]_vars

\* the thousandth record has been written and a later row with the rsi
\* condition and a free slot was counted but not written
C16_Witness ==
    /\ partial_condition_count = 1000
    /\ partial_file.lines = 1000
    /\ rsi_below_threshold_count > 1000
    /\ i > 1000
    /\ row.rsi < rsi_oversold /\ row.undefined = {} /\ row.atr >= min_atr
    /\ positions = <<>>

\* C17: of two rows the loop processes in one run, the one processed later
\* has the strictly greater timestamp (stated for each row and the row
\* processed just before it).
C17_StrictlyIncreasingTimestamps ==
    [][pc = "loop" /\ pc' = "loop" /\ i >= 1
          => row'.timestamp > row.timestamp]_vars

\* C18: an accepted entry appends exactly one position at the tail of the
\* open positions, takes size * close * (1 + fee_percent / 100) from the
\* balance, adds size to sol_balance and leaves the trade log and the
\* trades and wins counters as they were.  The ledger right after the entry
\* is compared with the ledger before the row; where the row closes no
\* position, the same is read from the state after the row.
C18_AcceptedEntry ==
    [][(/\ pc = "loop" /\ pc' = "loop"
        /\ \E k \in 1..Len(positions' \o positions_to_close') :
               (positions' \o positions_to_close')[k].entry_index = i')
       => \E after \in {EntryEvaluation(Ledger, i', row').ledger} :
          \E size \in {after.positions[Len(after.positions)].size} :
          \E paid \in {MulInt(MulInt(USDT(row'.close), size),
                               100 * 1000 + fee_percent)} :
            /\ Len(after.positions) = Len(positions) + 1
            /\ SubSeq(after.positions, 1, Len(positions)) = positions
            /\ after.positions[Len(after.positions)].entry_index = i'
            /\ MulInt(MulInt(Sub(balance, after.balance), 100 * 1000),
                      LotsPerSOL) = paid
            /\ after.usdt_balance = after.balance
            /\ after.sol_balance = sol_balance + size
            /\ after.trade_history = trade_history
            /\ after.trades = trades /\ after.wins = wins
            /\ positions_to_close' = <<>>
                 => /\ Len(positions') = Len(positions) + 1
                    /\ \A k \in 1..Len(positions) :
                           positions'[k].entry_index = positions[k].entry_index
                    /\ positions'[Len(positions')].entry_index = i'
                    /\ positions'[Len(positions')].size = size
                    /\ MulInt(MulInt(Sub(balance, balance'), 100 * 1000),
                              LotsPerSOL) = paid
                    /\ sol_balance' = sol_balance + size
                    /\ trade_history' = trade_history
                    /\ trades' = trades /\ wins' = wins]_vars

\* a second position has just been opened behind one that stays open
C18_Witness ==
    /\ pc = "loop" /\ i >= 2
    /\ Len(positions) = 2
    /\ positions[1].entry_index < i /\ positions[2].entry_index = i
    /\ positions_to_close = <<>>
    /\ sol_balance = positions[1].size + positions[2].size
    /\ Less(balance, WholeUSDT(initial_balance))

\* C19: whatever a row does, each position that was open before it is found
\* after it, among the open or the just closed positions, with every field
\* but position_candles as it was; and each trade record written by the row
\* carries the entry_price, the size and the indicator values of the
\* position it closes.
C19_EntryParametersFrozen ==
    [][/\ \A k \in 1..Len(positions) :
             \E n \in 1..Len(positions' \o positions_to_close') :
                 \E q \in {(positions' \o positions_to_close')[n]} :
                     /\ q.entry_index = positions[k].entry_index
                     /\ \A f \in DOMAIN q \ {"position_candles"} :
                            q[f] = positions[k][f]
                     /\ q.position_candles >= positions[k].position_candles
       /\ trades' > trades =>
             \A k \in 1..Len(positions_to_close') :
                 \E pos \in {positions_to_close'[k]} :
                 \E rec \in {trade_history'[Len(trade_history) + k]} :
                     /\ rec.entry_price = pos.entry_price
                     /\ rec.size = pos.size
                     /\ rec.macd_at_entry = pos.macd_at_entry
                     /\ rec.signal_at_entry = pos.signal_at_entry
                     /\ rec.hist_at_entry = pos.hist_at_entry
                     /\ rec.atr_at_entry = pos.atr_at_entry]_vars

\* a position has aged over several rows and stays open on the row that
\* closes another one
C19_Witness ==
    /\ pc = "loop"
    /\ positions # <<>> /\ positions[1].position_candles >= 2
    /\ positions_to_close # <<>> /\ trade_history # <<>>
    /\ positions_to_close[1].entry_index # positions[1].entry_index
    /\ trade_history[Len(trade_history)].timestamp = row.timestamp
    /\ trade_history[Len(trade_history)].size
           = positions_to_close[Len(positions_to_close)].size

\* C20: the trade log only grows at its end, by one record for each position
\* the row closes.  A position that was open before the row is afterwards
\* either untouched (the row evaluated no exit), or open and one candle
\* older with no exit condition met, or closed with an exit condition met:
\* then it is no longer open and the k-th position closed by the row has
\* the k-th new record.  The positions that stay open keep their order.
C20_TradeLogAppendOnly ==
    [][\E closed \in {IF trades' > trades THEN positions_to_close' ELSE <<>>} :
       /\ Len(trade_history') = Len(trade_history) + Len(closed)
       /\ SubSeq(trade_history', 1, Len(trade_history)) = trade_history
       /\ trades' = trades + Len(closed)
       /\ \A k \in 1..Len(closed) :
              /\ \A n \in 1..Len(positions') :
                     positions'[n].entry_index # closed[k].entry_index
              /\ \A n \in 1..Len(closed) :
                     closed[n].entry_index = closed[k].entry_index => n = k
              /\ trade_history'[Len(trade_history) + k].entry_price
                     = closed[k].entry_price
              /\ trade_history'[Len(trade_history) + k].timestamp
                     = row'.timestamp
       /\ \A k \in 1..Len(positions) :
              \E pos \in {positions[k]} :
              \E fires \in {\/ row'.low <= pos.stop_loss
                            \/ row'.high >= pos.take_profit
                            \/ pos.position_candles + 1 >= max_hold_candles} :
                 \/ /\ closed = <<>>
                    /\ positions' = positions
                 \/ /\ ~fires
                    /\ \E n \in 1..Len(positions') :
                           positions'[n] = Aged(pos)
                    /\ \A n \in 1..Len(closed) :
                           closed[n].entry_index # pos.entry_index
                 \/ /\ fires
                    /\ \E n \in 1..Len(closed) : closed[n] = Aged(pos)
       /\ \A j, k \in 1..Len(positions) :
              \A m, n \in 1..Len(positions') :
                  /\ j < k
                  /\ positions'[m].entry_index = positions[j].entry_index
                  /\ positions'[n].entry_index = positions[k].entry_index
                  => m < n]_vars

\* the log holds a record of an earlier row, the current row has added one
\* and left another position open
C20_Witness ==
    /\ pc = "loop"
    /\ Len(trade_history) >= 2
    /\ trade_history[1].timestamp < row.timestamp
    /\ trade_history[Len(trade_history)].timestamp = row.timestamp
    /\ Len(positions_to_close) = 1
    /\ positions # <<>>
    /\ \A n \in 1..Len(positions) :
           positions[n].entry_index # positions_to_close[1].entry_index

\* C21: the positions a row closes are closed in the order they were opened
\* and the k-th new record of the log belongs to the k-th of them; the
\* usdt_balance of a record is the balance before the exit evaluation plus
\* size * exit_price * (1 - fee_percent / 100) of this and of every earlier
\* position closed by the row, and the last one is the balance after the row.
C21_ClosedInEntryOrder ==
    [][(pc = "loop" /\ pc' = "loop" /\ trades' > trades) =>
       \E closed \in {positions_to_close'} :
       \E before \in {EntryEvaluation(Ledger, i', row').ledger.balance} :
       /\ \A j, k \in 1..Len(closed) :
              j < k => closed[j].entry_index < closed[k].entry_index
       /\ \A k \in 1..Len(closed) :
              \E rec \in {trade_history'[Len(trade_history) + k]} :
              \E earlier \in {IF k = 1 THEN before
                               ELSE trade_history'[Len(trade_history) + k - 1]
                                        .usdt_balance} :
                 /\ rec.entry_price = closed[k].entry_price
                 /\ rec.size = closed[k].size
                 /\ MulInt(MulInt(Sub(rec.usdt_balance, earlier), 100 * 1000),
                           LotsPerSOL)
                        = MulInt(MulInt(rec.exit_price, closed[k].size),
                                 100 * 1000 - fee_percent)
       /\ trade_history'[Len(trade_history')].usdt_balance = balance'
       /\ \/ before = balance
          \/ \E n \in 1..Len(positions' \o closed) :
                 /\ (positions' \o closed)[n].entry_index = i'
                 /\ Less(before, balance)]_vars

\* one row has closed two positions opened on different rows
C21_Witness ==
    /\ pc = "loop"
    /\ Len(positions_to_close) >= 2 /\ Len(trade_history) >= 2
    /\ positions_to_close[1].entry_index < positions_to_close[2].entry_index
    /\ trade_history[Len(trade_history)].timestamp = row.timestamp
    /\ trade_history[Len(trade_history) - 1].timestamp = row.timestamp
    /\ Less(trade_history[Len(trade_history) - 1].usdt_balance,
            trade_history[Len(trade_history)].usdt_balance)
    /\ trade_history[Len(trade_history)].usdt_balance = balance

\* C22: the balance is never negative, after an accepted entry and after
\* every row.
C22_BalanceNeverNegative == ~IsNeg(balance) /\ ~IsNeg(usdt_balance)

\* C23: after every row each open position has a counter of at least 1 and
\* below max_hold_candles.
C23_HoldCounterRange ==
    \A k \in 1..Len(positions) :
        /\ 1 <= positions[k].position_candles
        /\ positions[k].position_candles < max_hold_candles

\* a position is one candle short of the hold limit while the position
\* opened before it has been closed at the limit
C23_Witness ==
    /\ pc = "loop"
    /\ positions # <<>>
    /\ positions[1].position_candles = max_hold_candles - 1
    /\ positions_to_close # <<>>
    /\ positions_to_close[1].position_candles = max_hold_candles
    /\ trade_history[Len(trade_history)].exit_type = "Time Exit"

\* C24: after every row trades is the number of trade records, wins is the
\* number of records marked Win, and 0 <= wins <= trades; neither counter
\* ever decreases.
C24_CountersMatchLog ==
    /\ [](/\ trades = Len(trade_history)
          /\ wins = Cardinality({k \in 1..Len(trade_history) :
                                    trade_history[k].win_loss = "Win"})
          /\ 0 <= wins /\ wins <= trades)
    /\ [][trades' >= trades /\ wins' >= wins]_vars

\* the log holds a winning and a losing trade
C24_Witness ==
    /\ trades >= 2 /\ wins >= 1 /\ wins < trades
    /\ \E j, k \in 1..Len(trade_history) :
           /\ trade_history[j].win_loss = "Win"
           /\ trade_history[k].win_loss = "Loss"

\* C25: every trade closed by Stop Loss has an exit price below its entry
\* price and a negative profit_loss, and is recorded as Loss.
C25_StopLossLoses ==
    \A k \in 1..Len(trade_history) :
        trade_history[k].exit_type = "Stop Loss"
            => /\ Less(trade_history[k].exit_price, trade_history[k].entry_price)
               /\ IsNeg(trade_history[k].profit_loss)
               /\ trade_history[k].win_loss = "Loss"

\* a position entered at an ATR of min_atr was stopped out, and so was one
\* entered at a larger ATR
C25_Witness ==
    \E j, k \in 1..Len(trade_history) :
        /\ trade_history[j].exit_type = "Stop Loss"
        /\ trade_history[j].atr_at_entry = min_atr
        /\ trade_history[k].exit_type = "Stop Loss"
        /\ trade_history[k].atr_at_entry > min_atr
        /\ wins = 0

\* C26: the fetcher comes to its end unless a page fails to end later than
\* the page before it.  A step that ends an iteration of the outer loop
\* moves the period start on by one chunk and every other step leaves it;
\* no period is requested twice, and at the end each has been requested
\* once.  The inner loop goes on only while the last timestamp is more than
\* one candle short of the period end.
C26_FetcherTerminates ==
    /\ [][/\ pc' = "period"
              => current_fetch_start_dt' = current_fetch_start_dt + chunk_duration
          /\ pc' # "period"
              => current_fetch_start_dt' = current_fetch_start_dt
          /\ \A p \in 1..months : attempts'[p] <= 1
          /\ (pc = "pages" /\ pc' = "pages")
              => last_timestamp < fetch_end_ms - 1]_vars
    /\ [](pc \in {"saved", "no data"}
            => /\ \A p \in 1..months : attempts[p] = 1
               /\ current_fetch_start_dt = months * chunk_duration)
    /\ <>(stalled \/ pc \in {"saved", "no data"})

\* the fetcher has ended with data and without a stalled page; its last
\* period was cut short by an empty page or by an error
C26_Witness ==
    /\ pc = "saved"
    /\ ~stalled
    /\ checkpoint
    /\ last_timestamp < end_dt - utc_offset - 1
    /\ \A p \in 1..months : attempts[p] = 1

====
